---- MODULE Spec2Model ----
(***************************************************************************)
(* Model of .github/workflows/check_games.py: a one-shot batch job that    *)
(* fetches two scoreboards, matches games between two registered councils, *)
(* posts one Discord message per matched game and persists the ids of the  *)
(* posted games in the body of a GitHub issue.                             *)
(*                                                                         *)
(* Text is modelled as a sequence of one-character strings, so that        *)
(* normalize() is computed character by character as the code does.  The   *)
(* tokens "emdash" and "rsquo" stand for the two non-ASCII keys of the     *)
(* replace table.  An absent field and an empty string are both <<>>: the  *)
(* code treats them alike everywhere (truthiness tests only).              *)
(***************************************************************************)
EXTENDS Integers, Sequences, FiniteSets, TLC

(***************************************************************************)
(* Bounds of the model.                                                    *)
(***************************************************************************)
MaxEvents == 2
MaxRuns == 2
MaxEntries == 2

(***************************************************************************)
(* Text helpers and normalize (lines 45-62).                               *)
(***************************************************************************)
UPPER == <<"A","B","C","D","E","F","G","H","I","J","K","L","M",
           "N","O","P","Q","R","S","T","U","V","W","X","Y","Z">>
LOWER == <<"a","b","c","d","e","f","g","h","i","j","k","l","m",
           "n","o","p","q","r","s","t","u","v","w","x","y","z">>

LowerChar(c) ==
  IF \E i \in 1..Len(UPPER) : UPPER[i] = c
    THEN LOWER[CHOOSE i \in 1..Len(UPPER) : UPPER[i] = c]
    ELSE c

\* str.lower()
LowerStr(s) == [i \in 1..Len(s) |-> LowerChar(s[i])]

IsSpace(c) == c = " "

RECURSIVE LStrip(_)
LStrip(s) ==
  IF s = <<>> THEN <<>>
  ELSE IF IsSpace(Head(s)) THEN LStrip(Tail(s)) ELSE s

RECURSIVE RStrip(_)
RStrip(s) ==
  IF s = <<>> THEN <<>>
  ELSE IF IsSpace(s[Len(s)]) THEN RStrip(SubSeq(s, 1, Len(s) - 1)) ELSE s

\* str.strip()
Strip(s) == RStrip(LStrip(s))

\* str.replace(k, v) for a one-character key k
RECURSIVE Replace(_, _, _)
Replace(s, k, v) ==
  IF s = <<>> THEN <<>>
  ELSE IF Head(s) = k THEN v \o Replace(Tail(s), k, v)
  ELSE <<Head(s)>> \o Replace(Tail(s), k, v)

\* the replace dict of normalize, in insertion order
ReplaceTable ==
  << <<"&", <<" ","a","n","d"," ">> >>,
     <<".", <<>> >>,
     <<",", <<>> >>,
     <<"-", <<" ">> >>,
     <<"emdash", <<" ">> >>,
     <<"'", <<>> >>,
     <<"rsquo", <<>> >> >>

RECURSIVE ReplaceAll(_, _)
ReplaceAll(s, i) ==
  IF i > Len(ReplaceTable) THEN s
  ELSE ReplaceAll(Replace(s, ReplaceTable[i][1], ReplaceTable[i][2]), i + 1)

\* str.split(): the maximal runs of non-space characters
RECURSIVE SplitWords(_, _, _)
SplitWords(s, cur, acc) ==
  IF s = <<>> THEN (IF cur = <<>> THEN acc ELSE Append(acc, cur))
  ELSE IF IsSpace(Head(s))
    THEN SplitWords(Tail(s), <<>>, IF cur = <<>> THEN acc ELSE Append(acc, cur))
    ELSE SplitWords(Tail(s), Append(cur, Head(s)), acc)

\* " ".join(words)
RECURSIVE JoinWords(_)
JoinWords(ws) ==
  IF ws = <<>> THEN <<>>
  ELSE IF Len(ws) = 1 THEN ws[1]
  ELSE ws[1] \o <<" ">> \o JoinWords(Tail(ws))

normalize(s) ==
  IF s = <<>> THEN <<>>
  ELSE JoinWords(SplitWords(ReplaceAll(Strip(LowerStr(s)), 1), <<>>, <<>>))

(***************************************************************************)
(* The texts that occur in the registries and in the scoreboard responses. *)
(***************************************************************************)
FooU == <<"F","o","o"," ","U">>
BarTech == <<"B","a","r"," ","T","e","c","h">>
FooULoc == <<" ","f","o","o","-","u",".">>
FooOfficial == <<"F","o","o"," ","&"," ","C","o">>
BarOfficial == <<"B","a","r","'","s">>
Baz == <<"B","a","z">>

Texts == {<<>>, FooU, BarTech, FooULoc, FooOfficial, BarOfficial, Baz}

\* normalize over the texts above, computed once
Normalized == [t \in Texts |-> normalize(t)]
Norm(s) == Normalized[s]

(***************************************************************************)
(* Python values.  A dict is a function; None is the string NoneVal.  The  *)
(* registry (a dict in insertion order) is a sequence of entries           *)
(*   [cid, official_name, council, aliases, espn_ids]                      *)
(* with pairwise different cid, where aliases is the sequence of the alias *)
(* groups in insertion order.                                              *)
(***************************************************************************)
NoneVal == "<None>"
EmptyDict == <<>>

\* d[k] = v
Put(d, k, v) == [x \in (DOMAIN d) \cup {k} |-> IF x = k THEN v ELSE d[x]]

\* d.get(k), with "" for a missing key (only ever tested for truth)
Get(d, k) == IF k \in DOMAIN d THEN d[k] ELSE ""

\* str() of a JSON number
Str(n) == ToString(n)

\* k in councils
HasKey(councils, k) == \E i \in 1..Len(councils) : councils[i].cid = k

\* councils[k]
Entry(councils, k) == councils[CHOOSE i \in 1..Len(councils) : councils[i].cid = k]

(***************************************************************************)
(* build_lookup (lines 65-84).                                             *)
(***************************************************************************)
\* d.setdefault(k, v)
PutIfAbsent(d, k, v) == IF k \in DOMAIN d THEN d ELSE Put(d, k, v)

RECURSIVE AddGroupKeepFirst(_, _, _)
AddGroupKeepFirst(alias_lookup, group, cid) ==
  IF group = <<>> THEN alias_lookup
  ELSE AddGroupKeepFirst(PutIfAbsent(alias_lookup, Norm(Head(group)), cid),
                         Tail(group), cid)

\* for a in group: alias_lookup[normalize(a)] = cid
RECURSIVE AddGroup(_, _, _)
AddGroup(alias_lookup, group, cid) ==
  IF group = <<>> THEN alias_lookup
  ELSE AddGroup(Put(alias_lookup, Norm(Head(group)), cid), Tail(group), cid)

\* for group in aliases.values(): ...
RECURSIVE AddGroups(_, _, _)
AddGroups(alias_lookup, groups, cid) ==
  IF groups = <<>> THEN alias_lookup
  ELSE AddGroups(AddGroup(alias_lookup, Head(groups), cid), Tail(groups), cid)

\* if official: alias_lookup[normalize(official)] = cid
AddOfficial(alias_lookup, official, cid) ==
  IF official # <<>> THEN Put(alias_lookup, Norm(official), cid)
  ELSE alias_lookup

\* for espn_id in info.get("espn_ids", []): espn_id_lookup[str(espn_id)] = cid
RECURSIVE AddEspnIds(_, _, _)
AddEspnIds(espn_id_lookup, ids, cid) ==
  IF ids = <<>> THEN espn_id_lookup
  ELSE AddEspnIds(Put(espn_id_lookup, Str(Head(ids)), cid), Tail(ids), cid)

\* one iteration of the loop over councils.items()
AddEntry(tables, info) ==
  [alias_lookup |->
     AddOfficial(AddGroups(tables.alias_lookup, info.aliases, info.cid),
                 info.official_name, info.cid),
   espn_id_lookup |-> AddEspnIds(tables.espn_id_lookup, info.espn_ids, info.cid),
   council_by_number |-> Put(tables.council_by_number, Str(info.council), info.cid)]

RECURSIVE BuildFrom(_, _)
BuildFrom(tables, entries) ==
  IF entries = <<>> THEN tables
  ELSE BuildFrom(AddEntry(tables, Head(entries)), Tail(entries))

build_lookup(councils) ==
  BuildFrom([alias_lookup |-> EmptyDict, espn_id_lookup |-> EmptyDict,
             council_by_number |-> EmptyDict], councils)

(***************************************************************************)
(* resolve_team (lines 87-104).  A competitor is [homeAway, team] and a    *)
(* team is [id, displayName, shortDisplayName, name, location,             *)
(* abbreviation].                                                          *)
(***************************************************************************)
FallbackKeys == <<"name", "displayName", "shortDisplayName", "location", "abbreviation">>

RECURSIVE ResolveFallback(_, _, _)
ResolveFallback(team, alias_lookup, i) ==
  IF i > Len(FallbackKeys) THEN NoneVal
  ELSE LET v == team[FallbackKeys[i]] IN
       IF v # <<>> /\ Norm(v) \in DOMAIN alias_lookup
         THEN alias_lookup[Norm(v)]
         ELSE ResolveFallback(team, alias_lookup, i + 1)

resolve_team(team_obj, alias_lookup, espn_id_lookup) ==
  LET team == team_obj.team
      team_id == team.id
      display == IF team.displayName # <<>> THEN team.displayName
                 ELSE team.shortDisplayName
      norm == Norm(display)
  IN IF team_id # "" /\ team_id \in DOMAIN espn_id_lookup
       THEN espn_id_lookup[team_id]
     ELSE IF norm \in DOMAIN alias_lookup THEN alias_lookup[norm]
     ELSE ResolveFallback(team, alias_lookup, 1)

(***************************************************************************)
(* build_role_mentions (lines 175-197).  role_id_map maps a council number *)
(* (as text) to a Discord role id.  councils[num] raises KeyError when num *)
(* is not a canonical id of the registry; the result is then [ok |-> FALSE]*)
(***************************************************************************)
RoleMention(num, role_id) ==
  [kind |-> "role", num |-> num, role_id |-> role_id, name |-> <<>>]

\* f"Council {num} ({councils[num]['official_name']})"
TextMention(num, councils) ==
  [kind |-> "text", num |-> num, role_id |-> "",
   name |-> Entry(councils, num).official_name]

KeyError == [ok |-> FALSE, mentions |-> <<>>]

build_role_mentions(council_home_num, council_away_num, councils, role_id_map) ==
  IF role_id_map # EmptyDict
    THEN LET home_id == Get(role_id_map, council_home_num)
             away_id == Get(role_id_map, council_away_num)
         IN IF home_id = "" /\ ~HasKey(councils, council_home_num) THEN KeyError
            ELSE IF away_id = "" /\ ~HasKey(councils, council_away_num) THEN KeyError
            ELSE [ok |-> TRUE,
                  mentions |->
                    << IF home_id # "" THEN RoleMention(council_home_num, home_id)
                       ELSE TextMention(council_home_num, councils),
                       IF away_id # "" THEN RoleMention(council_away_num, away_id)
                       ELSE TextMention(council_away_num, councils) >>]
    ELSE IF ~HasKey(councils, council_home_num) \/ ~HasKey(councils, council_away_num)
           THEN KeyError
         ELSE [ok |-> TRUE,
               mentions |-> << TextMention(council_home_num, councils),
                               TextMention(council_away_num, councils) >>]

(***************************************************************************)
(* The body of the loop over the events of one response (lines 245-314).   *)
(* An event is [id, hasCompetitions, competitions]; competitions is the    *)
(* list of competitions, each [competitors |-> list of competitors].  The  *)
(* venue, start time and broadcast fields only feed the message text and   *)
(* are left out.                                                           *)
(***************************************************************************)
\* if not game_id or game_id in posted: continue
SkipEventNoDedup(game_id, posted) == game_id = ""
SkipEvent(game_id, posted) == game_id = "" \/ game_id \in posted

\* comp = event.get("competitions", [{}])[0]; IndexError on an empty list
HasFirstCompetition(event) == ~event.hasCompetitions \/ event.competitions # <<>>
Competitors(event) ==
  IF event.hasCompetitions THEN event.competitions[1].competitors ELSE <<>>

\* the last competitor tagged tag, 0 for None (lines 256-262)
Tagged(competitors, tag) ==
  LET I == {i \in 1..Len(competitors) : competitors[i].homeAway = tag}
  IN IF I = {} THEN 0 ELSE CHOOSE i \in I : \A j \in I : j <= i

\* lines 263-266: positional fallback unless both tags were found
HomeIndex(competitors) ==
  IF Tagged(competitors, "home") = 0 \/ Tagged(competitors, "away") = 0
    THEN 1 ELSE Tagged(competitors, "home")

AwayIndexSlip(competitors) ==
  IF Tagged(competitors, "home") = 0 \/ Tagged(competitors, "away") = 0
    THEN 1 ELSE Tagged(competitors, "away")
AwayIndex(competitors) ==
  IF Tagged(competitors, "home") = 0 \/ Tagged(competitors, "away") = 0
    THEN 2 ELSE Tagged(competitors, "away")

\* if not home_cid or not away_cid: continue
Qualifies(home_cid, away_cid) == ~(home_cid = NoneVal \/ away_cid = NoneVal)

\* the message text, as the fields that vary (lines 277-313)
Message(sport, home_info, away_info, role_mentions) ==
  [sport |-> sport,
   home_name |-> home_info.official_name, home_cnum |-> Str(home_info.council),
   away_name |-> away_info.official_name, away_cnum |-> Str(away_info.council),
   role_mentions |-> role_mentions]

\* one iteration: "skip" (continue), "queue" (to_post.append) or "crash"
\* (an exception that nothing catches)
ProcessEvent(event, sport, posted, councils, tables, role_id_map) ==
  LET game_id == event.id
      competitors == Competitors(event)
      home == competitors[HomeIndex(competitors)]
      away == competitors[AwayIndex(competitors)]
      home_cid == resolve_team(home, tables.alias_lookup, tables.espn_id_lookup)
      away_cid == resolve_team(away, tables.alias_lookup, tables.espn_id_lookup)
      home_info == Entry(councils, home_cid)
      away_info == Entry(councils, away_cid)
      rm == build_role_mentions(Str(home_info.council), Str(away_info.council),
                                councils, role_id_map)
      nothing == [kind |-> "skip", cause |-> "none", game_id |-> "",
                  message |-> Message("", [official_name |-> <<>>, council |-> 0],
                                      [official_name |-> <<>>, council |-> 0], <<>>)]
  IN IF SkipEvent(game_id, posted) THEN nothing
     ELSE IF ~HasFirstCompetition(event)
       THEN [nothing EXCEPT !.kind = "crash", !.cause = "IndexError"]
     ELSE IF Len(competitors) < 2 THEN nothing
     ELSE IF ~Qualifies(home_cid, away_cid) THEN nothing
     ELSE IF ~rm.ok THEN [nothing EXCEPT !.kind = "crash", !.cause = "KeyError"]
     ELSE [kind |-> "queue", cause |-> "none", game_id |-> game_id,
           message |-> Message(sport, home_info, away_info, rm.mentions)]

\* the loop over data.get("events", []): the queue and the events it came
\* from, or the exception that ended the run
RECURSIVE ProcessEvents(_, _, _, _, _, _, _)
ProcessEvents(events, acc, sport, posted, councils, tables, role_id_map) ==
  IF events = <<>> THEN acc
  ELSE LET r == ProcessEvent(Head(events), sport, posted, councils, tables, role_id_map)
       IN IF r.kind = "crash" THEN [acc EXCEPT !.crash = r.cause]
          ELSE ProcessEvents(Tail(events),
                 IF r.kind = "queue"
                   THEN [acc EXCEPT
                           !.to_post = Append(@, [game_id |-> r.game_id,
                                                  message |-> r.message]),
                           !.origin = Append(@, Head(events))]
                   ELSE acc,
                 sport, posted, councils, tables, role_id_map)

(***************************************************************************)
(* The persisted record: the body of the store issue (lines 130-153).  A   *)
(* body is [kind, items]: a JSON array of ids ("array"), text that is not  *)
(* JSON ("unparsable"), or JSON that is not an array ("nonarray").         *)
(***************************************************************************)
IdOrder == <<"e1", "e2", "e3">>
IdRank(id) == CHOOSE i \in 1..Len(IdOrder) : IdOrder[i] = id

\* sorted(list(posted_set))
RECURSIVE Sorted(_)
Sorted(S) ==
  IF S = {} THEN <<>>
  ELSE LET m == CHOOSE x \in S : \A y \in S : IdRank(x) <= IdRank(y)
       IN <<m>> \o Sorted(S \ {m})

\* json.dumps(sorted(list(posted_set)), indent=2)
DumpBody(posted_set) == [kind |-> "array", items |-> Sorted(posted_set)]

\* the try block of read_posted_set_from_issue (lines 137-143)
ParseBodyForget(body) == {}
ParseBody(body) ==
  IF body.kind = "array" THEN {body.items[i] : i \in 1..Len(body.items)}
  ELSE {}

\* the body of a newly created issue: "[]"
NewBody == [kind |-> "array", items |-> <<>>]

(***************************************************************************)
(* Inputs: registries, role maps, scoreboard responses.                    *)
(***************************************************************************)
RegAB ==
  << [cid |-> "A", official_name |-> FooOfficial, council |-> 100,
      aliases |-> << <<FooU>> >>, espn_ids |-> <<>>],
     [cid |-> "B", official_name |-> BarOfficial, council |-> 200,
      aliases |-> << <<BarTech>> >>, espn_ids |-> <<7>>] >>

\* the same registry with the council numbers as canonical ids
RegNum ==
  << [cid |-> "100", official_name |-> FooOfficial, council |-> 100,
      aliases |-> << <<FooU>> >>, espn_ids |-> <<>>],
     [cid |-> "200", official_name |-> BarOfficial, council |-> 200,
      aliases |-> << <<BarTech>> >>, espn_ids |-> <<7>>] >>

Registries == {RegAB, RegNum}

RoleMapBoth == [n \in {"100", "200"} |-> IF n = "100" THEN "r100" ELSE "r200"]
RoleMapHome == [n \in {"100"} |-> "r100"]

\* the values of ROLE_ID_MAP_JSON
RoleMapJsons ==
  { [kind |-> "unset", map |-> EmptyDict],
    [kind |-> "invalid", map |-> EmptyDict],
    [kind |-> "map", map |-> RoleMapBoth],
    [kind |-> "map", map |-> RoleMapHome] }

Team(id, displayName, shortDisplayName, location) ==
  [id |-> id, displayName |-> displayName, shortDisplayName |-> shortDisplayName,
   name |-> <<>>, location |-> location, abbreviation |-> <<>>]

TeamFoo == Team("", FooU, <<>>, <<>>)
TeamBar == Team("9", BarTech, <<>>, <<>>)
TeamBaz == Team("3", Baz, <<>>, <<>>)
TeamBarById == Team("7", Baz, <<>>, <<>>)
TeamFooByLoc == Team("", <<>>, Baz, FooULoc)

Competitor(homeAway, team) == [homeAway |-> homeAway, team |-> team]

Event(id, competitors) ==
  [id |-> id, hasCompetitions |-> TRUE,
   competitions |-> << [competitors |-> competitors] >>]

\* "Foo U" at home against "Bar Tech"
EvFooBar == Event("e1", << Competitor("home", TeamFoo), Competitor("away", TeamBar) >>)
\* the away side listed first; both sides resolve by id and by a fallback field
EvBarFoo == Event("e2", << Competitor("away", TeamFooByLoc),
                           Competitor("home", TeamBarById) >>)
\* no role tags, and only the first participant is in the registry
EvFooBaz == Event("e1", << Competitor("", TeamFoo), Competitor("", TeamBaz) >>)
\* only the away participant is in the registry
EvBazBar == Event("e2", << Competitor("home", TeamBaz), Competitor("away", TeamBar) >>)
EvOneSide == Event("e3", << Competitor("home", TeamFoo) >>)
EvNoCompetitions == [id |-> "e3", hasCompetitions |-> FALSE, competitions |-> <<>>]
EvEmptyCompetitions == [id |-> "e3", hasCompetitions |-> TRUE, competitions |-> <<>>]
EvNoId == Event("", << Competitor("home", TeamFoo), Competitor("away", TeamBar) >>)

Events == {EvFooBar, EvBarFoo, EvFooBaz, EvBazBar, EvOneSide, EvNoCompetitions,
           EvEmptyCompetitions, EvNoId}

\* the events of one response: an event id is unique within a scoreboard
EventLists ==
  {es \in UNION {[1..n -> Events] : n \in 0..MaxEvents} :
     \A i, j \in 1..Len(es) : es[i].id = es[j].id => i = j}

\* what requests.get(url) ... resp.json() gives: an exception ("error": the
\* request failed, the status was an error, or the body was not JSON), a
\* JSON value that is not an object ("notdict"), or an object with events
Responses ==
  { [kind |-> "error", events |-> <<>>], [kind |-> "notdict", events |-> <<>>] }
  \cup { [kind |-> "ok", events |-> es] : es \in EventLists }

Sports == <<"basketball", "football">>

(***************************************************************************)
(* What a response holds, read off the registry itself rather than off the *)
(* lookup tables: used to record the history of a run.                     *)
(***************************************************************************)
TextFields == {"displayName", "shortDisplayName", "name", "location", "abbreviation"}

\* the normalized names of a registry entry
EntryNames(info) ==
  UNION { {Norm(info.aliases[g][a]) : a \in 1..Len(info.aliases[g])} :
            g \in 1..Len(info.aliases) }
  \cup (IF info.official_name # <<>> THEN {Norm(info.official_name)} ELSE {})

\* the team is an entity of the registry, by ESPN id or by one of its names
Registered(team, registry) ==
  \E i \in 1..Len(registry) :
    \/ team.id # "" /\ \E k \in 1..Len(registry[i].espn_ids) :
                          Str(registry[i].espn_ids[k]) = team.id
    \/ \E f \in TextFields :
         team[f] # <<>> /\ Norm(team[f]) \in EntryNames(registry[i])

\* the event has an id and two participants
TwoSided(event) ==
  /\ event.id # ""
  /\ event.hasCompetitions
  /\ event.competitions # <<>>
  /\ Len(event.competitions[1].competitors) = 2

\* how many of the two participants are entities of the registry
RegisteredSides(event, registry) ==
  Cardinality({i \in 1..2 :
                 Registered(event.competitions[1].competitors[i].team, registry)})

\* the ids of the events of a response both of whose participants are
\* entities of the registry, in order
RECURSIVE Matchups(_, _)
Matchups(events, registry) ==
  IF events = <<>> THEN <<>>
  ELSE (IF TwoSided(Head(events)) /\ RegisteredSides(Head(events), registry) = 2
          THEN <<Head(events).id>> ELSE <<>>)
       \o Matchups(Tail(events), registry)

NoData == [kind |-> "none", events |-> <<>>]

(***************************************************************************)
(* State.                                                                  *)
(***************************************************************************)
VARIABLES
  env,           \* environment variables: DISCORD_WEBHOOK and GITHUB (token and
                 \* repository) set or not, ROLE_ID_MAP_JSON
  council_file,  \* COUNCIL_FILE: [exists, data]
  issue,         \* the store issue on GitHub: [exists, body]
  pc,            \* position of the run in main()
  councils,      \* main: councils
  tables,        \* main: alias_lookup, espn_id_lookup, council_by_number
  role_id_map,   \* main: role_id_map
  posted,        \* main: posted
  to_post,       \* main: to_post
  srcIdx,        \* index of the next scoreboard of the loop of line 235
  data,          \* history: the response of the last scoreboard fetched, kept
                 \* from the end of the loop of line 235 to the next step
  postIdx,       \* index of the next entry of the loop of line 321
  runs,          \* number of runs started
  posted0,       \* history: the set read at the start of the run
  read_result,   \* history: how the read of the record went
  fetched,       \* history: per scoreboard, how the fetch went and the ids
                 \* of the matchups its response held
  origin,        \* history: the event each entry of to_post came from
  sent,          \* history: the webhook posts of the run, in order
  written,       \* history: the set handed to write_posted_set_to_issue
  crash          \* history: the exception that ended the run, or "none"

vars == << env, council_file, issue, pc, councils, tables, role_id_map, posted,
           to_post, srcIdx, data, postIdx, runs, posted0, read_result, fetched,
           origin, sent, written, crash >>

config == << env, council_file >>
history == << posted0, read_result, fetched, origin, sent, written, crash >>


NoTables == [alias_lookup |-> EmptyDict, espn_id_lookup |-> EmptyDict,
             council_by_number |-> EmptyDict]
NotWritten == [attempted |-> FALSE, ok |-> FALSE, set |-> {}]

\* the state of a process that has not yet entered main()
Fresh ==
  /\ pc = "start"
  /\ councils = <<>>
  /\ tables = NoTables
  /\ role_id_map = EmptyDict
  /\ posted = {}
  /\ to_post = <<>>
  /\ srcIdx = 1
  /\ data = NoData
  /\ postIdx = 1
  /\ posted0 = {}
  /\ read_result = "none"
  /\ fetched = <<>>
  /\ origin = <<>>
  /\ sent = <<>>
  /\ written = NotWritten
  /\ crash = "none"

Envs ==
  { [DISCORD_WEBHOOK |-> TRUE, GITHUB |-> TRUE, ROLE_ID_MAP_JSON |-> j] :
      j \in RoleMapJsons }
  \cup { [DISCORD_WEBHOOK |-> FALSE, GITHUB |-> TRUE,
          ROLE_ID_MAP_JSON |-> [kind |-> "unset", map |-> EmptyDict]],
         [DISCORD_WEBHOOK |-> TRUE, GITHUB |-> FALSE,
          ROLE_ID_MAP_JSON |-> [kind |-> "unset", map |-> EmptyDict]] }

CouncilFiles ==
  { [exists |-> FALSE, data |-> <<>>] }
  \cup { [exists |-> TRUE, data |-> r] : r \in Registries }

\* the repository has no store issue yet, or one whose body was not written
\* by this program
Issues ==
  { [exists |-> FALSE, body |-> NewBody],
    [exists |-> TRUE, body |-> [kind |-> "unparsable", items |-> <<>>]],
    [exists |-> TRUE, body |-> [kind |-> "nonarray", items |-> <<>>]] }

Init ==
  /\ env \in Envs
  /\ council_file \in CouncilFiles
  /\ issue \in Issues
  /\ runs = 1
  /\ Fresh

(***************************************************************************)
(* main(), one action per phase.                                           *)
(***************************************************************************)
\* lines 211-226: required settings, load_councils, build_lookup, role map
Configure ==
  /\ pc = "start"
  /\ IF ~env.DISCORD_WEBHOOK \/ ~env.GITHUB \/ ~council_file.exists
       THEN /\ pc' = "exit1"
            /\ UNCHANGED << councils, tables, role_id_map >>
       ELSE /\ councils' = council_file.data
            /\ tables' = build_lookup(council_file.data)
            /\ role_id_map' = IF env.ROLE_ID_MAP_JSON.kind = "map"
                                THEN env.ROLE_ID_MAP_JSON.map ELSE EmptyDict
            /\ pc' = "find_issue"
  /\ UNCHANGED << config, issue, posted, to_post, srcIdx, data, postIdx, runs,
                  history >>

\* line 229 and find_or_create_issue (lines 107-128): a failed request raises
FindOrCreateIssue ==
  /\ pc = "find_issue"
  /\ \E ok \in BOOLEAN :
       IF ok
         THEN /\ issue' = IF issue.exists THEN issue
                          ELSE [exists |-> TRUE, body |-> NewBody]
              /\ pc' = "read"
              /\ crash' = crash
         ELSE /\ pc' = "crashed"
              /\ crash' = "find_or_create_issue"
              /\ issue' = issue
  /\ UNCHANGED << config, councils, tables, role_id_map, posted, to_post, srcIdx,
                  data, postIdx, runs, posted0, read_result, fetched, origin, sent,
                  written >>

\* lines 230-233 and read_posted_set_from_issue (lines 130-143): the request
\* is outside the try block
ReadPosted ==
  /\ pc = "read"
  /\ \E ok \in BOOLEAN :
       IF ok
         THEN /\ posted' = ParseBody(issue.body)
              /\ posted0' = ParseBody(issue.body)
              /\ read_result' = issue.body.kind
              /\ pc' = "fetch"
              /\ crash' = crash
         ELSE /\ pc' = "crashed"
              /\ crash' = "read_posted_set_from_issue"
              /\ read_result' = "request_failed"
              /\ UNCHANGED << posted, posted0 >>
  /\ UNCHANGED << config, issue, councils, tables, role_id_map, to_post, srcIdx,
                  data, postIdx, runs, fetched, origin, sent, written >>

\* one iteration of the loop of lines 235-314, and lines 317-318 after the last
FetchSource ==
  /\ pc = "fetch"
  /\ \E resp \in Responses :
       LET r == ProcessEvents(resp.events,
                              [to_post |-> to_post, origin |-> origin, crash |-> "none"],
                              Sports[srcIdx], posted, councils, tables, role_id_map)
       IN /\ fetched' = Append(fetched, [kind |-> resp.kind,
                                          matchups |-> Matchups(resp.events, councils)])
          /\ data' = IF srcIdx = Len(Sports) \/ resp.kind = "notdict" \/ r.crash # "none"
                       THEN resp ELSE NoData
          /\ IF resp.kind = "notdict" \/ r.crash # "none"
               THEN /\ pc' = "crashed"
                    /\ crash' = IF resp.kind = "notdict" THEN "AttributeError"
                                ELSE r.crash
                    /\ UNCHANGED << to_post, origin, srcIdx >>
               ELSE /\ to_post' = r.to_post
                    /\ origin' = r.origin
                    /\ crash' = crash
                    /\ srcIdx' = srcIdx + 1
                    /\ pc' = IF srcIdx < Len(Sports) THEN "fetch"
                             ELSE IF r.to_post = <<>> THEN "persist" ELSE "post"
  /\ UNCHANGED << config, issue, councils, tables, role_id_map, posted, postIdx,
                  runs, posted0, read_result, sent, written >>

\* posted.add(game_id)
AddPosted(posted_set, game_id) == posted_set \cup {game_id}

\* one iteration of the loop of lines 321-328, with post_to_discord (200-207)
PostMessage ==
  /\ pc = "post"
  /\ \E ok \in BOOLEAN :
       /\ sent' = Append(sent, [game_id |-> to_post[postIdx].game_id,
                                message |-> to_post[postIdx].message,
                                ok |-> ok])
       /\ posted' = IF ok THEN AddPosted(posted, to_post[postIdx].game_id) ELSE posted
  /\ postIdx' = postIdx + 1
  /\ pc' = IF postIdx < Len(to_post) THEN "post" ELSE "persist"
  /\ data' = NoData
  /\ UNCHANGED << config, issue, councils, tables, role_id_map, to_post, srcIdx,
                  runs, posted0, read_result, fetched, origin, written, crash >>

\* lines 330-336 with write_posted_set_to_issue (lines 145-153)
WritePosted ==
  /\ pc = "persist"
  /\ \E ok \in BOOLEAN :
       /\ written' = [attempted |-> TRUE, ok |-> ok, set |-> posted]
       /\ issue' = IF ok THEN [issue EXCEPT !.body = DumpBody(posted)] ELSE issue
  /\ pc' = "done"
  /\ data' = NoData
  /\ UNCHANGED << config, councils, tables, role_id_map, posted, to_post, srcIdx,
                  postIdx, runs, posted0, read_result, fetched, origin, sent, crash >>

\* the scheduler starts the script again once the previous process has ended
NextRun ==
  /\ pc \in {"done", "crashed", "exit1"}
  /\ runs < MaxRuns
  /\ runs' = runs + 1
  /\ pc' = "start"
  /\ councils' = <<>>
  /\ tables' = NoTables
  /\ role_id_map' = EmptyDict
  /\ posted' = {}
  /\ to_post' = <<>>
  /\ srcIdx' = 1
  /\ data' = NoData
  /\ postIdx' = 1
  /\ posted0' = {}
  /\ read_result' = "none"
  /\ fetched' = <<>>
  /\ origin' = <<>>
  /\ sent' = <<>>
  /\ written' = NotWritten
  /\ crash' = "none"
  /\ UNCHANGED << config, issue >>

Next ==
  \/ Configure
  \/ FindOrCreateIssue
  \/ ReadPosted
  \/ FetchSource
  \/ PostMessage
  \/ WritePosted
  \/ NextRun

Spec == Init /\ [][Next]_vars

(***************************************************************************)
(* The Lookup Builder on its own: the start of main() over a larger set of *)
(* registry files, with names shared between entries.                      *)
(***************************************************************************)
Cids == {"A", "B", "C"}
CouncilOf(cid) == IF cid = "A" THEN 100 ELSE IF cid = "B" THEN 200 ELSE 300

AliasChoices ==
  { <<>>, << <<FooU>> >>, << <<FooULoc>>, <<BarTech>> >>, << <<BarTech, FooU>> >> }

OfficialChoices == {<<>>, FooU, BarOfficial}

LookupEntries ==
  { [cid |-> c, official_name |-> o, council |-> CouncilOf(c), aliases |-> a,
     espn_ids |-> <<>>] : c \in Cids, o \in OfficialChoices, a \in AliasChoices }

\* canonical ids are unique (the keys of a JSON object)
LookupRegistries ==
  {r \in UNION {[1..n -> LookupEntries] : n \in 1..MaxEntries} :
     \A i, j \in 1..Len(r) : r[i].cid = r[j].cid => i = j}

InitLookup ==
  /\ env = [DISCORD_WEBHOOK |-> TRUE, GITHUB |-> TRUE,
            ROLE_ID_MAP_JSON |-> [kind |-> "unset", map |-> EmptyDict]]
  /\ council_file \in {[exists |-> TRUE, data |-> r] : r \in LookupRegistries}
  /\ issue = [exists |-> FALSE, body |-> NewBody]
  /\ runs = 1
  /\ Fresh

NextLookup == Configure

SpecLookup == InitLookup /\ [][NextLookup]_vars

(***************************************************************************)
(* Properties.                                                             *)
(***************************************************************************)
\* the ids in the persisted record
PersistedIds ==
  IF issue.exists /\ issue.body.kind = "array"
    THEN {issue.body.items[i] : i \in 1..Len(issue.body.items)}
    ELSE {}

\* the run is over: exit status 0 ("done") or 1
Ended == pc \in {"done", "crashed", "exit1"}

\* the ids of all matchups the scoreboards returned in this run, in order
RECURSIVE AllMatchups(_)
AllMatchups(k) ==
  IF k > Len(fetched) THEN <<>> ELSE fetched[k].matchups \o AllMatchups(k + 1)

Ids(seq) == {seq[i] : i \in 1..Len(seq)}

\* the store was found and read without a failed request
StoreRead == read_result \in {"array", "unparsable", "nonarray"}

\* C1: no webhook message is sent for an event id that was in the Dedup Set
\* read at the start of the run.
C1_NoMessageForPostedId ==
  \A i \in 1..Len(sent) : sent[i].game_id \notin posted0

\* a finished run in which a scoreboard returned a matchup whose id was in the
\* Dedup Set, and which did send a message for another event
C1_Witness ==
  /\ pc = "done"
  /\ sent # <<>>
  /\ Ids(AllMatchups(1)) \cap posted0 # {}

\* C2: when a post fails, every queued message is still attempted, the id of
\* the failed entry is not in the set handed to the final write (unless it was
\* in the set read at the start), and the id of every successful post is.
C2_FailedPostNotPersisted ==
  written.attempted =>
    /\ Len(sent) = Len(to_post)
    /\ \A i \in 1..Len(sent) :
         /\ sent[i].ok => sent[i].game_id \in written.set
         /\ (~sent[i].ok /\ sent[i].game_id \notin posted0)
              => sent[i].game_id \notin written.set

\* C3: with entities A ("Foo U", 100) and B ("Bar Tech", 200), an empty Dedup
\* Set and the single matchup "Foo U" against "Bar Tech" (event e1) in
\* well-formed responses, the run sends exactly one message, and it names the
\* councils 100 and 200, whatever the role map and the canonical ids.
C3_ScenarioPostsOneMessage ==
  ( /\ pc \in {"done", "crashed"}
    /\ StoreRead
    /\ posted0 = {}
    /\ AllMatchups(1) = <<"e1">>
    /\ crash \notin {"IndexError", "AttributeError"} )
  => /\ Len(sent) = 1
     /\ sent[1].game_id = "e1"
     /\ {sent[1].message.home_cnum, sent[1].message.away_cnum} = {"100", "200"}

\* C4: when the fetch of one scoreboard fails, the matchups of the other one
\* that are not in the Dedup Set are still posted, one message each; so with a
\* posted and a new matchup exactly one message is sent.
C4_OtherSourceStillPosted ==
  ( /\ pc \in {"done", "crashed"}
    /\ StoreRead
    /\ Len(fetched) = Len(Sports)
    /\ Cardinality({k \in 1..Len(fetched) : fetched[k].kind = "error"}) = 1
    /\ crash \notin {"IndexError", "AttributeError"} )
  => /\ Ids(AllMatchups(1)) \ posted0 = {sent[i].game_id : i \in 1..Len(sent)}
     /\ Len(sent) = Cardinality(Ids(AllMatchups(1)) \ posted0)

\* C5: an entry is queued only for an event with two participants that are
\* both entities of the registry, and only queued entries are sent.
C5_QueuedOnlyIfBothResolve ==
  /\ Len(origin) = Len(to_post)
  /\ \A i \in 1..Len(origin) :
       /\ TwoSided(origin[i])
       /\ RegisteredSides(origin[i], councils) = 2
       /\ to_post[i].game_id = origin[i].id
  /\ Len(sent) <= Len(to_post)
  /\ \A i \in 1..Len(sent) :
       sent[i].game_id = to_post[i].game_id /\ sent[i].message = to_post[i].message

\* the last scoreboard returned a new event with exactly one registered
\* participant next to a matchup, and only the matchup was queued
C5_Witness ==
  /\ pc = "post"
  /\ postIdx = 1
  /\ data.kind = "ok"
  /\ \E i \in 1..Len(data.events) :
       /\ TwoSided(data.events[i])
       /\ data.events[i].id \notin posted0
       /\ RegisteredSides(data.events[i], councils) = 1
  /\ fetched[1].matchups = <<>>
  /\ Len(fetched[2].matchups) = 1
  /\ Len(to_post) = 1

\* C6: a failure to read the persisted record (failed request, unparsable
\* body, body that is not an array) never ends the run, which goes on with an
\* empty Dedup Set.
C6_ReadFailureIsNoHistory ==
  read_result \in {"request_failed", "unparsable", "nonarray"}
    => crash # "read_posted_set_from_issue" /\ posted0 = {}

\* C7: with the settings and the registry file present and the store found and
\* read, no failure of a fetch, a response, a post or the write ends the run
\* before its exit with status zero.
C7_RunAlwaysCompletes ==
  pc = "crashed" => crash \in {"find_or_create_issue", "read_posted_set_from_issue"}

\* C8: the Dedup Set only grows: the set handed to the write contains the set
\* read at the start, and no step removes an id from the persisted record.
C8_DedupSetOnlyGrows ==
  /\ [](written.attempted => posted0 \subseteq written.set)
  /\ [][PersistedIds \subseteq PersistedIds']_vars

\* a second run that read a non-empty set and wrote a larger one
C8_Witness ==
  /\ runs = 2
  /\ pc = "done"
  /\ written.ok
  /\ posted0 # {}
  /\ written.set # posted0
  /\ PersistedIds = written.set

\* the entries of the registry that hold the normalized name key
Holders(key) == {i \in 1..Len(councils) : key \in EntryNames(councils[i])}

\* some normalized name is held by two entries, and the tables are built
SharedAlias ==
  /\ pc = "find_issue"
  /\ \E key \in DOMAIN tables.alias_lookup : Cardinality(Holders(key)) > 1

\* C9 as stated: a name shared by several entries maps to the canonical id of
\* the first of them.
C9_FirstRegisteredWins ==
  pc = "find_issue" =>
    \A key \in DOMAIN tables.alias_lookup :
      \E i \in Holders(key) :
        /\ \A j \in Holders(key) : i <= j
        /\ tables.alias_lookup[key] = councils[i].cid

\* C9 as amended: the alias table holds exactly the normalized names of the
\* registry, and a name shared by several entries maps to the canonical id of
\* the last of them.
C9_LastRegisteredWins ==
  pc = "find_issue" =>
    /\ DOMAIN tables.alias_lookup = UNION {EntryNames(councils[i]) : i \in 1..Len(councils)}
    /\ \A key \in DOMAIN tables.alias_lookup :
         \E i \in Holders(key) :
           /\ \A j \in Holders(key) : j <= i
           /\ tables.alias_lookup[key] = councils[i].cid

\* the tables are built from a registry in which two entries share a name, and
\* the table does not give the first of them
C9_Witness ==
  /\ SharedAlias
  /\ \E key \in DOMAIN tables.alias_lookup :
       \E i \in Holders(key) : i > 1 /\ tables.alias_lookup[key] = councils[i].cid

\* C10: within a run at most one message is sent per event id.
C10_AtMostOneMessagePerId ==
  \A i, j \in 1..Len(sent) : sent[i].game_id = sent[j].game_id => i = j

====
